---- MODULE Spec2Model ----
(***************************************************************************)
(* A model of the Fornjot kernel pieces:                                   *)
(*   - fj-operations: Difference2d::to_shape, add_cycle, Sweep::to_shape   *)
(*   - fj-kernel: the ObjectIters traversal framework (iter.rs)            *)
(* Coordinates are abstracted to integers; a curve is an origin and a      *)
(* direction and reversing it negates the direction.                       *)
(***************************************************************************)
EXTENDS Integers, Sequences, FiniteSets, TLC

VARIABLES
    pc,         \* position of the modelled call: "start", "done", ...
    a,          \* result of converting operand A (or the sketch of a sweep)
    b,          \* result of converting operand B
    validation, \* what the validation collaborator answers when it is asked
    result,     \* what to_shape returned: ok / err / panic (assertion abort)
    handed,     \* [tag |-> "list", faces |-> ...] handed to validate, or NoList
    merged,     \* TRUE once cycles were merged into the exteriors/interiors
    swept,      \* TRUE once the sweep algorithm ran
    cyc,        \* add_cycle: the original cycle
    cur,        \* add_cycle: the cycle after the calls made so far
    calls,      \* add_cycle: the reverse flags of the calls made so far
    obj,        \* traversal: the object (or collection) iterated
    kind,       \* traversal: the requested kind K
    out,        \* traversal: [tag |-> "list", items |-> ...] returned, or NoList
    callerFaces,\* kernel: the caller's Vec<Face>
    origFaces,  \* kernel: the faces the caller started with
    xf,         \* kernel: the transform applied to the caller's faces so far, or NoList
    tol,        \* kernel: the tolerance passed to triangulate
    mesh,       \* kernel: the mesh of the caller's faces triangulated before transform_shape
    meshT,      \* kernel: the mesh of the caller's faces triangulated after transform_shape
    trace,      \* kernel: the mesh as it grew in the last triangulate call
    store,      \* vertex: the points owned by the shape, by handle
    va,         \* vertex: one Vertex
    vb,         \* vertex: another Vertex
    cmp,        \* vertex: the outcome of va == vb and the two hashes, or NoList
    minDist,    \* vertex: the minimum distance configured for the shape
    build,      \* processor: which ShapeProcessor is built, the app's or the library's
    argTol,     \* processor: the tolerance given by the user, if any
    processor,  \* processor: what constructing the ShapeProcessor returned, or NoList
    extents,    \* processor: the size of the bounding box of the shape
    convert,    \* processor: what converting the shape to faces will answer
    processed,  \* processor: what process returned, or NoList
    appShape,   \* app: the processed shape held by the event loop, or NoList
    appCamera,  \* app: the camera held by the event loop, or NoList
    loaded,     \* app: the bounding boxes of the shapes received so far
    handled,    \* app: the last event handled and whether a frame was drawn
    camerasMade,\* app: how often Camera::new was called
    control,    \* app: the control flow of the event loop
    regCrates,  \* registry: self.crates, each with what its environment will answer
    regOut      \* registry: what publish_crates returned and did, or NoList

kernelVars == <<callerFaces, origFaces, xf, tol, mesh, meshT, trace>>
vertexVars == <<store, va, vb, cmp, minDist>>

procVars == <<build, argTol, processor, extents, convert, processed>>

\* the variables of the tools around the kernel
appVars == <<appShape, appCamera, loaded, handled, camerasMade, control>>

regVars == <<regCrates, regOut>>

laterVars == <<procVars, appVars, regVars>>

\* the variables of the subsystems modelled after the first three
extraVars == <<kernelVars, vertexVars, laterVars>>

vars == <<pc, a, b, validation, result, handed, merged, swept,
          cyc, cur, calls, obj, kind, out, extraVars>>

----------------------------------------------------------------------------
(* Bounds *)

MaxFaces == 2
NPts == 2
MaxEdges == 2

\* "no list", "no result": a record so that it compares with the other outcomes
NoList == [tag |-> "none"]

\* a subsystem that is not exercised keeps its variables at rest
KernelIdle ==
    /\ callerFaces = NoList /\ origFaces = NoList /\ xf = NoList /\ tol = 0
    /\ mesh = NoList /\ meshT = NoList /\ trace = NoList

VertexIdle ==
    /\ store = NoList /\ va = NoList /\ vb = NoList /\ cmp = NoList
    /\ minDist = 0

ProcIdle ==
    /\ build = NoList /\ argTol = NoList /\ processor = NoList
    /\ extents = NoList /\ convert = NoList /\ processed = NoList

AppIdle ==
    /\ appShape = NoList /\ appCamera = NoList /\ loaded = NoList
    /\ handled = NoList /\ camerasMade = 0 /\ control = "idle"

RegIdle == regCrates = NoList /\ regOut = NoList

LaterIdle == ProcIdle /\ AppIdle /\ RegIdle

ExtraIdle == KernelIdle /\ VertexIdle /\ LaterIdle

----------------------------------------------------------------------------
(* Sequence helpers *)

Range(s) == {s[i] : i \in 1..Len(s)}

\* Vec::reverse
VecReverse(s) == [i \in 1..Len(s) |-> s[Len(s) + 1 - i]]

\* all sequences over S of length lo..hi
SeqsOf(S, lo, hi) == UNION {[1..n -> S] : n \in lo..hi}

NoDup(s) == \A i, j \in 1..Len(s) : i # j => s[i] # s[j]

RECURSIVE Concat(_)
Concat(ss) == IF ss = <<>> THEN <<>> ELSE Head(ss) \o Concat(Tail(ss))

----------------------------------------------------------------------------
(* Topological objects *)

Surfaces == {"xy", "xz"}

\* Curve<D>: a line through `origin` with `direction`, or a circle
Curve(dim, shape, origin, direction) ==
    [dim |-> dim, shape |-> shape, origin |-> origin, direction |-> direction]

\* Curve::reverse: same points, inverted direction
CurveReverse(c) == [c EXCEPT !.direction = -c.direction]

\* Local::new(local, canonical)
Local(local, canonical) == [local |-> local, canonical |-> canonical]

GlobalVertex(p) == [position |-> p]

\* Vertex::new(position on the curve, global form)
Vertex(t, g) == [position |-> t, global |-> g]

\* VerticesOfEdge: <<>> (none) or a pair; reverse swaps the pair
VerticesReverse(vs) == IF vs = <<>> THEN <<>> ELSE <<vs[2], vs[1]>>

Edge(curve, vertices) == [curve |-> curve, vertices |-> vertices]

Cycle(edges) == [edges |-> edges]

FaceBRep(surface, exteriors, interiors, color) ==
    [variant |-> "Face", surface |-> surface, exteriors |-> exteriors,
     interiors |-> interiors, color |-> color]

FaceTriangles(triangles) == [variant |-> "Triangles", triangles |-> triangles]

\* Edge::line_segment_from_points(surface, [p, q])
LineSegment(p, q) ==
    Edge(Local(Curve(2, "line", p, q - p), Curve(3, "line", p, q - p)),
         <<Vertex(0, GlobalVertex(p)), Vertex(1, GlobalVertex(q))>>)

\* an edge without vertices: a full circle around p
CircleEdge(p) ==
    Edge(Local(Curve(2, "circle", p, 1), Curve(3, "circle", p, 1)), <<>>)

\* Cycle::polygon_from_points(surface, points)
Polygon(ps) ==
    Cycle([i \in 1..Len(ps) |-> LineSegment(ps[i], ps[(i % Len(ps)) + 1])])

----------------------------------------------------------------------------
(* iter.rs: the traversal framework.  An object handed to the framework is  *)
(* tagged with its type, which selects the impl of ObjectIters.  The seven  *)
(* methods of an impl differ only in the kind K they collect, so each impl  *)
(* is one operator with K as a parameter.                                   *)

Kinds == {"Curve", "Cycle", "Edge", "Face", "GlobalVertex", "Surface", "Vertex"}

Obj(type, val) == [type |-> type, val |-> val]

\* Iter::empty
Iter_empty == <<>>

\* Iter::from_object
Iter_from_object(object) == <<object>>

\* VecDeque::contains
Contains(self, object) == \E i \in 1..Len(self) : self[i] = object

\* Iter::with, without the `contains` test
RECURSIVE Iter_with_NoDedup(_, _)
Iter_with_NoDedup(self, other) ==
    IF other = <<>> THEN self
    ELSE Iter_with_NoDedup(Append(self, Head(other)), Tail(other))

\* Iter::with
RECURSIVE Iter_with(_, _)
Iter_with(self, other) ==
    IF other = <<>> THEN self
    ELSE Iter_with(
             IF ~Contains(self, Head(other)) THEN Append(self, Head(other)) ELSE self,
             Tail(other))

\* impl ObjectIters for Curve<3>
Curve_iter(K, self) ==
    IF K = "Curve" THEN Iter_from_object(self) ELSE Iter_empty

\* impl ObjectIters for GlobalVertex
GlobalVertex_iter(K, self) ==
    IF K = "GlobalVertex" THEN Iter_from_object(self) ELSE Iter_empty

\* impl ObjectIters for Surface
Surface_iter(K, self) ==
    IF K = "Surface" THEN Iter_from_object(self) ELSE Iter_empty

\* impl ObjectIters for Vertex
Vertex_iter(K, self) ==
    CASE K = "GlobalVertex" -> Iter_from_object(self.global)
      [] K = "Vertex"       -> Iter_from_object(self)
      [] OTHER              -> Iter_empty

\* `for vertex in self.vertices().into_iter().flatten() { iter = iter.with(..) }`
RECURSIVE WithVertices(_, _, _)
WithVertices(K, iter, vertices) ==
    IF vertices = <<>> THEN iter
    ELSE WithVertices(K, Iter_with(iter, Vertex_iter(K, Head(vertices))),
                      Tail(vertices))

\* impl ObjectIters for Edge
Edge_iter(K, self) ==
    IF K = "Edge" THEN Iter_from_object(self)
    ELSE WithVertices(K,
                      Iter_with(Iter_empty, Curve_iter(K, self.curve.canonical)),
                      self.vertices)

\* `for edge in self.edges() { iter = iter.with(..) }`
RECURSIVE WithEdges(_, _, _)
WithEdges(K, iter, edges) ==
    IF edges = <<>> THEN iter
    ELSE WithEdges(K, Iter_with(iter, Edge_iter(K, Head(edges))), Tail(edges))

\* impl ObjectIters for Cycle, walking the edges back to front
Cycle_iter_Backwards(K, self) ==
    IF K = "Cycle" THEN Iter_from_object(self)
    ELSE WithEdges(K, Iter_empty, VecReverse(self.edges))

\* impl ObjectIters for Cycle
Cycle_iter(K, self) ==
    IF K = "Cycle" THEN Iter_from_object(self)
    ELSE WithEdges(K, Iter_empty, self.edges)

\* FaceBRep::all_cycles: the exteriors, then the interiors
all_cycles(face) == face.exteriors \o face.interiors

\* `for cycle in face.all_cycles() { iter = iter.with(..) }`
RECURSIVE WithCycles(_, _, _)
WithCycles(K, iter, cycles) ==
    IF cycles = <<>> THEN iter
    ELSE WithCycles(K, Iter_with(iter, Cycle_iter(K, Head(cycles))), Tail(cycles))

\* impl ObjectIters for Face
Face_iter(K, self) ==
    IF K = "Face" THEN Iter_from_object(self)
    ELSE IF self.variant = "Face"
         THEN WithCycles(K, Iter_with(Iter_empty, Surface_iter(K, self.surface)),
                         all_cycles(self))
         ELSE Iter_empty

\* the impl selected by the object's type
Object_iter(K, object) ==
    CASE object.type = "Curve"        -> Curve_iter(K, object.val)
      [] object.type = "Cycle"        -> Cycle_iter(K, object.val)
      [] object.type = "Edge"         -> Edge_iter(K, object.val)
      [] object.type = "Face"         -> Face_iter(K, object.val)
      [] object.type = "GlobalVertex" -> GlobalVertex_iter(K, object.val)
      [] object.type = "Surface"      -> Surface_iter(K, object.val)
      [] object.type = "Vertex"       -> Vertex_iter(K, object.val)

\* `for object in self.into_iter() { iter = iter.with(..) }`
RECURSIVE WithObjects(_, _, _)
WithObjects(K, iter, objects) ==
    IF objects = <<>> THEN iter
    ELSE WithObjects(K, Iter_with(iter, Object_iter(K, Head(objects))),
                     Tail(objects))

\* impl<T, O> ObjectIters for T, skipping the first object of the collection
Vec_iter_SkipFirst(K, self) ==
    WithObjects(K, Iter_empty, IF self = <<>> THEN <<>> ELSE Tail(self))

\* impl<T, O> ObjectIters for T  (T a collection of objects O)
Vec_iter(K, self) == WithObjects(K, Iter_empty, self)

\* any object or collection
Any_iter(K, x) ==
    IF x.type = "Vec" THEN Vec_iter(K, x.val) ELSE Object_iter(K, x)

----------------------------------------------------------------------------
(* difference_2d.rs: add_cycle *)

\* add_cycle that reverses the edges but keeps their order in the cycle
add_cycle_KeepOrder(cycle, reverse) ==
    LET edges == [i \in 1..Len(cycle.edges) |->
            LET edge == cycle.edges[i]
            IN  IF reverse
                THEN Edge(Local(CurveReverse(edge.curve.local),
                                CurveReverse(edge.curve.canonical)),
                          VerticesReverse(edge.vertices))
                ELSE edge]
    IN  Cycle(edges)

\* add_cycle that reverses the edge order whatever the flag says
add_cycle_AlwaysReverseOrder(cycle, reverse) ==
    LET edges == [i \in 1..Len(cycle.edges) |->
            LET edge == cycle.edges[i]
            IN  IF reverse
                THEN Edge(Local(CurveReverse(edge.curve.local),
                                CurveReverse(edge.curve.canonical)),
                          VerticesReverse(edge.vertices))
                ELSE edge]
    IN  Cycle(VecReverse(edges))

\* add_cycle, lines 94-130
add_cycle(cycle, reverse) ==
    LET edges == [i \in 1..Len(cycle.edges) |->
            LET edge == cycle.edges[i]
                curve_local == IF reverse THEN CurveReverse(edge.curve.local)
                               ELSE edge.curve.local
                curve_canonical == IF reverse THEN CurveReverse(edge.curve.canonical)
                                   ELSE edge.curve.canonical
                vertices == IF reverse THEN VerticesReverse(edge.vertices)
                            ELSE edge.vertices
            IN  Edge(Local(curve_local, curve_canonical), vertices)]
    IN  Cycle(IF reverse THEN VecReverse(edges) ELSE edges)

----------------------------------------------------------------------------
(* difference_2d.rs: Difference2d::to_shape;  sweep.rs: Sweep::to_shape *)

ValidationErrors == {"Uniqueness", "Structural"}

Ok(faces) == [tag |-> "ok", faces |-> faces]
Err(e) == [tag |-> "err", err |-> e]
Panic == [tag |-> "panic"]
List(faces) == [tag |-> "list", faces |-> faces]

\* validate(faces, config): the collaborator answers "valid" or an error
validate(faces, answer) ==
    IF answer = "valid" THEN Ok(faces) ELSE Err(answer)

\* Validated<Vec<Face>>::face_iter
face_iter(faces) ==
    Vec_iter("Face", [i \in 1..Len(faces) |-> Obj("Face", faces[i])])

\* `for cycle in cycles { push(add_cycle(cycle, reverse)) }`
PushCycles(target, cycles, reverse) ==
    target \o [i \in 1..Len(cycles) |-> add_cycle(cycles[i], reverse)]

\* the accumulators of to_shape; panicked once an assert_eq! failed
Acc(exteriors, interiors, panicked) ==
    [exteriors |-> exteriors, interiors |-> interiors, panicked |-> panicked]

\* the loop over A's faces, lines 41-58, without the surface assertion
RECURSIVE LoopA_NoAssert(_, _, _)
LoopA_NoAssert(surface, faces, acc) ==
    IF faces = <<>> \/ acc.panicked THEN acc
    ELSE LET face == Head(faces)
         IN  LoopA_NoAssert(surface, Tail(faces),
                   Acc(PushCycles(acc.exteriors, face.exteriors, FALSE),
                       PushCycles(acc.interiors, face.interiors, TRUE),
                       FALSE))

\* the loop over A's faces, lines 41-58
RECURSIVE LoopA(_, _, _)
LoopA(surface, faces, acc) ==
    IF faces = <<>> \/ acc.panicked THEN acc
    ELSE LET face == Head(faces)
         IN  IF surface # face.surface
             THEN Acc(acc.exteriors, acc.interiors, TRUE)
             ELSE LoopA(surface, Tail(faces),
                        Acc(PushCycles(acc.exteriors, face.exteriors, FALSE),
                            PushCycles(acc.interiors, face.interiors, TRUE),
                            FALSE))

\* the loop over B's faces, lines 60-73, pushing B's exteriors as exteriors
RECURSIVE LoopB_AsExterior(_, _, _)
LoopB_AsExterior(surface, faces, acc) ==
    IF faces = <<>> \/ acc.panicked THEN acc
    ELSE LET face == Head(faces)
         IN  IF surface # face.surface
             THEN Acc(acc.exteriors, acc.interiors, TRUE)
             ELSE LoopB_AsExterior(surface, Tail(faces),
                        Acc(PushCycles(acc.exteriors, face.exteriors, TRUE),
                            acc.interiors,
                            FALSE))

\* the loop over B's faces, lines 60-73
RECURSIVE LoopB(_, _, _)
LoopB(surface, faces, acc) ==
    IF faces = <<>> \/ acc.panicked THEN acc
    ELSE LET face == Head(faces)
         IN  IF surface # face.surface
             THEN Acc(acc.exteriors, acc.interiors, TRUE)
             ELSE LoopB(surface, Tail(faces),
                        Acc(acc.exteriors,
                            PushCycles(acc.interiors, face.exteriors, TRUE),
                            FALSE))

DifferenceColor == "red"

\* what a call returns and leaves behind
Outcome(res, list, didMerge, didSweep, answer) ==
    [result |-> res, handed |-> list, merged |-> didMerge, swept |-> didSweep,
     validation |-> answer]

\* Difference2d::to_shape that pushes a face even when A has none
Difference2d_to_shape_AlwaysPush(ra, rb, answer) ==
    IF ra.tag = "err" THEN Outcome(ra, NoList, FALSE, FALSE, NoList)
    ELSE IF rb.tag = "err" THEN Outcome(rb, NoList, FALSE, FALSE, NoList)
    ELSE LET difference == <<FaceBRep("xy", <<>>, <<>>, DifferenceColor)>>
         IN  Outcome(validate(difference, answer), List(difference),
                     FALSE, FALSE, [tag |-> answer])

\* Difference2d::to_shape that returns B's error first
Difference2d_to_shape_BFirst(ra, rb, answer) ==
    IF rb.tag = "err" THEN Outcome(rb, NoList, FALSE, FALSE, NoList)
    ELSE IF ra.tag = "err" THEN Outcome(ra, NoList, FALSE, FALSE, NoList)
    ELSE Outcome(validate(<<>>, answer), List(<<>>), FALSE, FALSE,
                 [tag |-> answer])

\* Difference2d::to_shape, lines 14-84
Difference2d_to_shape(ra, rb, answer) ==
    IF ra.tag = "err" THEN Outcome(ra, NoList, FALSE, FALSE, NoList)
    ELSE IF rb.tag = "err" THEN Outcome(rb, NoList, FALSE, FALSE, NoList)
    ELSE
      LET a_faces == face_iter(ra.faces)
          b_faces == face_iter(rb.faces)
      IN  IF a_faces = <<>>
          THEN Outcome(validate(<<>>, answer), List(<<>>), FALSE, FALSE,
                       [tag |-> answer])
          ELSE
            LET surface == a_faces[1].surface
                accA == LoopA(surface, a_faces, Acc(<<>>, <<>>, FALSE))
                accB == LoopB(surface, b_faces, accA)
                didMerge == accB.exteriors # <<>> \/ accB.interiors # <<>>
                difference == <<FaceBRep(surface, accB.exteriors,
                                         accB.interiors, DifferenceColor)>>
            IN  IF accB.panicked
                THEN Outcome(Panic, NoList, didMerge, FALSE, NoList)
                ELSE Outcome(validate(difference, answer), List(difference),
                             didMerge, FALSE, [tag |-> answer])

\* fj_kernel::algorithms::sweep: opaque here, a solid made from the sketch
sweep(sketch, path) ==
    <<[variant |-> "Swept", source |-> sketch, path |-> path]>>

SweepPath == 1

\* Sweep::to_shape, lines 12-25
Sweep_to_shape(rsketch, answer) ==
    IF rsketch.tag = "err" THEN Outcome(rsketch, NoList, FALSE, FALSE, NoList)
    ELSE LET solid == sweep(rsketch.faces, SweepPath)
         IN  Outcome(validate(solid, answer), List(solid), FALSE, TRUE,
                     [tag |-> answer])

----------------------------------------------------------------------------
(* The operands of a difference: what converting a 2D shape returns *)

Triangle == Polygon(<<1, 2, 3>>)
Digon == Polygon(<<4, 5>>)
Circle1 == Cycle(<<CircleEdge(6)>>)
Circle2 == Cycle(<<CircleEdge(7)>>)
Quad == Polygon(<<6, 7, 8, 9>>)

\* exteriors and interiors of the faces tried
Boundaries ==
    { <<(<<Triangle>>), (<<>>)>>,
      <<(<<Triangle>>), (<<Digon>>)>>,
      <<(<<Circle1, Quad>>), (<<Circle2, Digon>>)>> }

DiffFaces ==
    {FaceBRep(s, bd[1], bd[2], "blue") : s \in Surfaces, bd \in Boundaries}

\* duplicate-free face lists of at most MaxFaces faces
Shapes == {fs \in SeqsOf(DiffFaces, 0, MaxFaces) : NoDup(fs)}

OperandResults == {Ok(fs) : fs \in Shapes} \cup {Err(e) : e \in ValidationErrors}

ValidateAnswers == {"valid"} \cup ValidationErrors

InitDifference ==
    /\ pc = "start"
    /\ a \in OperandResults
    /\ b \in OperandResults
    /\ validation = NoList
    /\ result = NoList
    /\ handed = NoList
    /\ merged = FALSE
    /\ swept = FALSE
    /\ cyc = NoList /\ cur = NoList /\ calls = <<>>
    /\ obj = NoList /\ kind = "Face" /\ out = NoList
    /\ ExtraIdle

Return(o, at) ==
    /\ pc' = at
    /\ result' = o.result
    /\ handed' = o.handed
    /\ merged' = o.merged
    /\ swept' = o.swept
    /\ validation' = o.validation
    /\ UNCHANGED <<a, b, cyc, cur, calls, obj, kind, out, extraVars>>

\* one call of Difference2d::to_shape on operands a and b
CallDifference ==
    /\ pc = "start"
    /\ \E answer \in ValidateAnswers :
          Return(Difference2d_to_shape(a, b, answer), "difference")

\* one call of Sweep::to_shape on the sketch a
CallSweep ==
    /\ pc = "start"
    /\ \E answer \in ValidateAnswers :
          Return(Sweep_to_shape(a, answer), "sweep")

NextDifference == CallDifference \/ CallSweep

SpecDifference == InitDifference /\ [][NextDifference]_vars

----------------------------------------------------------------------------
(* add_cycle applied repeatedly to one cycle *)

MaxCalls == 2

Points == 1..NPts

EdgeSet == {LineSegment(p, q) : p, q \in Points} \cup {CircleEdge(p) : p \in Points}

AllCycles == {Cycle(es) : es \in SeqsOf(EdgeSet, 0, MaxEdges)}

InitReverse ==
    /\ pc = "start"
    /\ cyc \in AllCycles
    /\ cur = cyc
    /\ calls = <<>>
    /\ a = NoList /\ b = NoList /\ validation = NoList /\ result = NoList
    /\ handed = NoList /\ merged = FALSE /\ swept = FALSE
    /\ obj = NoList /\ kind = "Face" /\ out = NoList
    /\ ExtraIdle

\* cur = add_cycle(cur, reverse)
CallAddCycle ==
    /\ Len(calls) < MaxCalls
    /\ \E reverse \in BOOLEAN :
          /\ cur' = add_cycle(cur, reverse)
          /\ calls' = Append(calls, reverse)
    /\ pc' = "add_cycle"
    /\ UNCHANGED <<a, b, validation, result, handed, merged, swept, cyc,
                   obj, kind, out, extraVars>>

NextReverse == CallAddCycle

SpecReverse == InitReverse /\ [][NextReverse]_vars

----------------------------------------------------------------------------
(* One call of a K-iterator on an object or a collection *)

SharedFaces ==
    {FaceBRep("xy", <<c1>>, <<c2>>, "blue") : c1, c2 \in {Triangle, Digon}}

IterFaces == DiffFaces \cup SharedFaces \cup {FaceTriangles(<<>>)}

\* the most corners of a polygon built for the traversal
MaxPoly == 3

PolyPoints == 1..(MaxPoly + 1)

\* sequences of pairwise-distinct points
DistinctPoints == {ps \in SeqsOf(PolyPoints, 1, MaxPoly) : NoDup(ps)}

\* Cycle::polygon_from_points(surface, points), as in tests::cycle
PolyCycles == {Polygon(ps) : ps \in DistinctPoints}

\* Face::builder(surface).with_exterior_polygon(points), as in tests::face
PolyFaces == {FaceBRep("xy", <<c>>, <<>>, "white") : c \in PolyCycles}

IterSubjects ==
         {Obj("Curve", e.curve.canonical) : e \in EdgeSet}
    \cup {Obj("Cycle", c) : c \in PolyCycles}
    \cup {Obj("Face", f) : f \in PolyFaces}
    \cup {Obj("Surface", s) : s \in Surfaces}
    \cup {Obj("GlobalVertex", GlobalVertex(p)) : p \in Points}
    \cup {Obj("Vertex", Vertex(t, GlobalVertex(p))) : t \in {0, 1}, p \in Points}
    \cup {Obj("Edge", e) : e \in EdgeSet}
    \cup {Obj("Cycle", c) : c \in AllCycles \cup {Triangle, Quad}}
    \cup {Obj("Face", f) : f \in IterFaces}
    \cup {Obj("Vec", [i \in 1..Len(fs) |-> Obj("Face", fs[i])]) :
              fs \in SeqsOf(IterFaces, 0, MaxFaces)}
    \cup {Obj("Vec", [i \in 1..Len(es) |-> Obj("Edge", es[i])]) :
              es \in SeqsOf(EdgeSet, 0, MaxEdges)}

InitIter ==
    /\ pc = "start"
    /\ obj \in IterSubjects
    /\ kind \in Kinds
    /\ out = NoList
    /\ a = NoList /\ b = NoList /\ validation = NoList /\ result = NoList
    /\ handed = NoList /\ merged = FALSE /\ swept = FALSE
    /\ cyc = NoList /\ cur = NoList /\ calls = <<>>
    /\ ExtraIdle

\* out = obj.<kind>_iter().collect()
CallIter ==
    /\ pc = "start"
    /\ out' = [tag |-> "list", items |-> Any_iter(kind, obj)]
    /\ pc' = "iterated"
    /\ UNCHANGED <<a, b, validation, result, handed, merged, swept,
                   cyc, cur, calls, obj, kind, extraVars>>

NextIter == CallIter

SpecIter == InitIter /\ [][NextIter]_vars

----------------------------------------------------------------------------
(* Properties of the 2D difference *)

\* r is e walked the other way: both curves inverted, the vertex pair swapped
EdgeIsReverseOf(r, e) ==
    /\ r.curve.local.direction = -e.curve.local.direction
    /\ r.curve.local.origin = e.curve.local.origin
    /\ r.curve.local.shape = e.curve.local.shape
    /\ r.curve.canonical.direction = -e.curve.canonical.direction
    /\ r.curve.canonical.origin = e.curve.canonical.origin
    /\ r.curve.canonical.shape = e.curve.canonical.shape
    /\ Len(r.vertices) = Len(e.vertices)
    /\ Len(e.vertices) = 2 =>
          r.vertices[1] = e.vertices[2] /\ r.vertices[2] = e.vertices[1]

\* r is c reversed: the edges back to front, each walked the other way
CycleIsReverseOf(r, c) ==
    /\ Len(r.edges) = Len(c.edges)
    /\ \A i \in 1..Len(c.edges) :
          EdgeIsReverseOf(r.edges[i], c.edges[Len(c.edges) + 1 - i])

DifferenceRan == pc = "difference"

\* the difference built a face (whatever validation then said about it)
FaceBuilt == DifferenceRan /\ handed.tag = "list" /\ handed.faces # <<>>

ResultFace == handed.faces[1]

AExteriors == Concat([i \in 1..Len(a.faces) |-> a.faces[i].exteriors])
AInteriors == Concat([i \in 1..Len(a.faces) |-> a.faces[i].interiors])
BExteriors == Concat([i \in 1..Len(b.faces) |-> b.faces[i].exteriors])
BInteriors == Concat([i \in 1..Len(b.faces) |-> b.faces[i].interiors])

\* C1: every interior cycle of every face of A is among the interior cycles of
\* the result face, unmodified (same edge order, vertex order and curve
\* directions as in A).
C1_AInteriorsUnmodified ==
    FaceBuilt =>
        \A i \in 1..Len(AInteriors) :
            \E j \in 1..Len(ResultFace.interiors) :
                ResultFace.interiors[j] = AInteriors[i]

\* C2: every exterior cycle of every face of B is an interior cycle of the
\* result face in reversed form (edge order reversed, vertex pairs swapped,
\* local and canonical curves reversed); for A and B each one hole-free face
\* the result is one face with A's exterior and reverse(B's exterior) as its
\* only interiors.
C2_BExteriorsReversed ==
    /\ FaceBuilt =>
          /\ Len(ResultFace.interiors) = Len(AInteriors) + Len(BExteriors)
          /\ \A j \in 1..Len(BExteriors) :
                CycleIsReverseOf(ResultFace.interiors[Len(AInteriors) + j],
                                 BExteriors[j])
    /\ ( /\ DifferenceRan /\ a.tag = "ok" /\ b.tag = "ok"
         /\ Len(a.faces) = 1 /\ Len(b.faces) = 1
         /\ a.faces[1].interiors = <<>> /\ b.faces[1].interiors = <<>>
         /\ a.faces[1].surface = b.faces[1].surface )
       => /\ handed.tag = "list"
          /\ Len(handed.faces) = 1
          /\ ResultFace.exteriors = a.faces[1].exteriors
          /\ Len(ResultFace.interiors) = Len(b.faces[1].exteriors)
          /\ \A j \in 1..Len(b.faces[1].exteriors) :
                CycleIsReverseOf(ResultFace.interiors[j], b.faces[1].exteriors[j])

C2_Witness ==
    /\ FaceBuilt
    /\ Len(a.faces) = 1 /\ Len(b.faces) = 1
    /\ a.faces[1].interiors = <<>> /\ b.faces[1].interiors = <<>>
    /\ b.faces[1].exteriors = <<Triangle>>
    /\ Len(ResultFace.interiors) = 1
    /\ ResultFace.interiors[1] # Triangle

\* C3: the exterior cycles of the result face are exactly the exterior cycles
\* of A's faces, in face order, each unmodified; no cycle of B becomes one.
C3_ExteriorsAreAs ==
    FaceBuilt =>
        /\ ResultFace.exteriors = AExteriors
        /\ Len(ResultFace.exteriors) = Len(AExteriors)

C3_Witness ==
    /\ FaceBuilt
    /\ Len(a.faces) = 2 /\ Len(b.faces) >= 1
    /\ Len(ResultFace.exteriors) >= 3

\* the faces of A and B do not all lie on the surface of A's first face
SurfaceMismatch ==
    /\ a.tag = "ok" /\ b.tag = "ok" /\ a.faces # <<>>
    /\ \E f \in Range(a.faces) \cup Range(b.faces) :
          f.surface # a.faces[1].surface

\* C5: if a face of A or of B lies on another surface than A's first face the
\* operation aborts on the assertion and returns no face; a result face is
\* produced only when all merged cycles come from faces on one surface.
C5_SurfaceMismatchAborts ==
    /\ (DifferenceRan /\ SurfaceMismatch) =>
          result = Panic /\ handed = NoList
    /\ FaceBuilt =>
          \A f \in Range(a.faces) \cup Range(b.faces) :
              f.surface = ResultFace.surface

C5_Witness ==
    /\ DifferenceRan /\ SurfaceMismatch
    /\ \A f \in Range(a.faces) : f.surface = a.faces[1].surface
    /\ result = Panic

\* C6 as stated: for any A and B, the face list handed to validation holds
\* exactly one face, built on A's surface.
C6_AlwaysOneFace ==
    (DifferenceRan /\ handed.tag = "list") =>
        /\ Len(handed.faces) = 1
        /\ handed.faces[1].variant = "Face"
        /\ handed.faces[1].surface = a.faces[1].surface

\* C6 amended: when A has at least one face, the list handed to validation
\* holds exactly one boundary-defined face, built on the surface of A's first
\* face; when A has no face, the list handed to validation is empty.
C6_OneFaceWhenANonEmpty ==
    (DifferenceRan /\ handed.tag = "list") =>
        /\ a.faces # <<>> =>
              /\ Len(handed.faces) = 1
              /\ handed.faces[1].variant = "Face"
              /\ handed.faces[1].surface = a.faces[1].surface
        /\ a.faces = <<>> => handed.faces = <<>>

C6_Witness ==
    /\ DifferenceRan /\ handed.tag = "list"
    /\ a.faces = <<>> /\ b.faces # <<>>
    /\ handed.faces = <<>>

\* C7: a ValidationError of operand A, of operand B (A's when both fail) or
\* of the sketch of a sweep is returned as it is, with no cycle merged, no
\* sweep performed and nothing handed to validation; a ValidationError of the
\* final validation is returned unchanged.
C7_ValidationErrorPropagates ==
    /\ (pc \in {"difference", "sweep"} /\ a.tag = "err") =>
          result = a /\ ~merged /\ ~swept /\ handed = NoList
    /\ (pc = "difference" /\ a.tag = "ok" /\ b.tag = "err") =>
          result = b /\ ~merged /\ handed = NoList
    /\ (pc \in {"difference", "sweep"} /\ validation.tag \in ValidationErrors) =>
          result = Err(validation.tag) /\ handed.tag = "list"
    /\ (pc \in {"difference", "sweep"} /\ validation.tag = "valid") =>
          result = Ok(handed.faces)
    /\ (pc = "sweep" /\ a.tag = "ok") => swept /\ handed.faces = sweep(a.faces, SweepPath)

C7_Witness ==
    /\ pc = "difference"
    /\ a.tag = "err" /\ b.tag = "err" /\ a.err # b.err
    /\ result = a

----------------------------------------------------------------------------
(* Properties of add_cycle *)

RECURSIVE Reversals(_)
Reversals(flags) ==
    IF flags = <<>> THEN 0
    ELSE (IF Head(flags) THEN 1 ELSE 0) + Reversals(Tail(flags))

\* C4: reversing a cycle twice gives back the cycle (edge order, vertex pairs
\* and both curve directions restored), and add_cycle with reverse = false
\* returns its input: after any calls with an even number of reversals the
\* cycle equals the original.
C4_ReverseInvolution ==
    /\ Reversals(calls) % 2 = 0 => cur = cyc
    /\ Reversals(calls) = 1 => CycleIsReverseOf(cur, cyc)

C4_Witness ==
    /\ calls = <<TRUE, TRUE>>
    /\ Len(cyc.edges) = 2
    /\ cyc.edges[1] # cyc.edges[2]
    /\ cyc.edges[1].vertices # <<>>
    /\ cur = cyc

----------------------------------------------------------------------------
(* Properties of the traversal framework *)

Iterated == pc = "iterated"

\* the objects an object owns, as a set
Children(t) ==
    CASE t.type = "Face" ->
            IF t.val.variant = "Face"
            THEN {Obj("Surface", t.val.surface)}
                 \cup {Obj("Cycle", c) : c \in Range(t.val.exteriors)}
                 \cup {Obj("Cycle", c) : c \in Range(t.val.interiors)}
            ELSE {}
      [] t.type = "Cycle" -> {Obj("Edge", e) : e \in Range(t.val.edges)}
      [] t.type = "Edge" ->
            {Obj("Curve", t.val.curve.canonical)}
            \cup {Obj("Vertex", v) : v \in Range(t.val.vertices)}
      [] t.type = "Vertex" -> {Obj("GlobalVertex", t.val.global)}
      [] t.type = "Vec" -> Range(t.val)
      [] OTHER -> {}

RECURSIVE Closure(_)
Closure(S) ==
    LET T == S \cup UNION {Children(t) : t \in S}
    IN  IF T = S THEN S ELSE Closure(T)

\* everything of kind K reachable from x, x included
ReachK(K, x) == {t.val : t \in {u \in Closure({x}) : u.type = K}}

\* C8: a K-iterator yields no two equal elements, an element equal to every
\* object of kind K reachable from the object (itself included), and nothing
\* else; a Curve, a Surface and a GlobalVertex yield exactly themselves for
\* their own kind and nothing for any other kind.
C8_IterIsReachableSet ==
    Iterated =>
        /\ NoDup(out.items)
        /\ Range(out.items) = ReachK(kind, obj)
        /\ obj.type \in {"Curve", "Surface", "GlobalVertex"} =>
              out.items = IF kind = obj.type THEN <<obj.val>> ELSE <<>>

\* a collection with the same face twice: traversal meets every object twice
C8_Witness ==
    /\ Iterated
    /\ obj.type = "Vec" /\ Len(obj.val) = 2
    /\ obj.val[1] = obj.val[2]
    /\ obj.val[1].type = "Face"
    /\ kind = "Vertex"
    /\ Len(out.items) = 6

\* the owned objects in declaration order
ChildSeq(t) ==
    CASE t.type = "Face" ->
            IF t.val.variant = "Face"
            THEN <<Obj("Surface", t.val.surface)>>
                 \o [i \in 1..Len(t.val.exteriors) |-> Obj("Cycle", t.val.exteriors[i])]
                 \o [i \in 1..Len(t.val.interiors) |-> Obj("Cycle", t.val.interiors[i])]
            ELSE <<>>
      [] t.type = "Cycle" -> [i \in 1..Len(t.val.edges) |-> Obj("Edge", t.val.edges[i])]
      [] t.type = "Edge" ->
            <<Obj("Curve", t.val.curve.canonical)>>
            \o [i \in 1..Len(t.val.vertices) |-> Obj("Vertex", t.val.vertices[i])]
      [] t.type = "Vertex" -> <<Obj("GlobalVertex", t.val.global)>>
      [] t.type = "Vec" -> t.val
      [] OTHER -> <<>>

\* the depth-first walk: the object, then the walk of each child in order
RECURSIVE Walk(_)
Walk(t) ==
    LET cs == ChildSeq(t)
    IN  <<t>> \o Concat([i \in 1..Len(cs) |-> Walk(cs[i])])

\* the values of kind K met on the walk, in order
OfKind(K, w) ==
    LET sel == SelectSeq(w, LAMBDA t : t.type = K)
    IN  [i \in 1..Len(sel) |-> sel[i].val]

\* s with every element that equals an earlier one removed
RECURSIVE FirstOccurrences(_)
FirstOccurrences(s) ==
    IF s = <<>> THEN <<>>
    ELSE LET front == SubSeq(s, 1, Len(s) - 1)
             last == s[Len(s)]
         IN  IF \E i \in 1..Len(front) : front[i] = last
             THEN FirstOccurrences(front)
             ELSE Append(FirstOccurrences(front), last)

\* C9: the result is in discovery order: the object first when it is of the
\* requested kind, then the results of each owned child in declaration order
\* (Face: surface, cycles in order; Cycle: edges in order; Edge: curve, start
\* vertex, end vertex), each element at the place of its first occurrence.
C9_DiscoveryOrder ==
    (Iterated /\ obj.type # "Vec") =>
        out.items = FirstOccurrences(OfKind(kind, Walk(obj)))

\* a face whose two cycles share edges, asked for its vertices
C9_Witness ==
    /\ Iterated
    /\ obj.type = "Face" /\ obj.val.variant = "Face"
    /\ Len(obj.val.exteriors) = 2 /\ Len(obj.val.interiors) = 2
    /\ kind = "GlobalVertex"
    /\ Len(out.items) >= 4
    /\ Len(out.items) < Len(OfKind(kind, Walk(obj)))

\* C10: a collection's K-iterator yields the concatenation of its objects'
\* K-sequences with every element equal to an earlier one removed, so an
\* object shared by several faces is yielded once; an empty collection
\* yields nothing.
C10_CollectionConcatDedup ==
    (Iterated /\ obj.type = "Vec") =>
        /\ out.items =
              FirstOccurrences(
                  Concat([i \in 1..Len(obj.val) |-> Object_iter(kind, obj.val[i])]))
        /\ obj.val = <<>> => out.items = <<>>

\* two different faces sharing a cycle, asked for their edges
C10_Witness ==
    /\ Iterated
    /\ obj.type = "Vec" /\ Len(obj.val) = 2
    /\ obj.val[1].type = "Face" /\ obj.val[1] # obj.val[2]
    /\ obj.val[1].val.variant = "Face" /\ obj.val[2].val.variant = "Face"
    /\ kind = "Edge"
    /\ Len(out.items) > Len(Face_iter("Edge", obj.val[1].val))
    /\ Len(out.items) <
          Len(Face_iter("Edge", obj.val[1].val)) + Len(Face_iter("Edge", obj.val[2].val))

----------------------------------------------------------------------------
(* Properties of the traversal of a polygon *)

\* the polygon the traversed object is (a cycle) or is bounded by (a face)
PolygonOf(o) ==
    IF o.type = "Cycle" THEN o.val ELSE o.val.exteriors[1]

IsPolygonSubject(o) ==
    \/ o.type = "Cycle" /\ o.val \in PolyCycles
    \/ o.type = "Face" /\ o.val \in PolyFaces

\* C11: traversing a polygon through n pairwise-distinct points (as a cycle,
\* or as the only cycle of a face) yields n global vertices, 2n vertices,
\* n edges and n curves, none of them twice.
C11_PolygonCounts ==
    (Iterated /\ IsPolygonSubject(obj)) =>
        LET n == Len(PolygonOf(obj).edges)
        IN  /\ NoDup(out.items)
            /\ kind = "GlobalVertex" => Len(out.items) = n
            /\ kind = "Vertex" => Len(out.items) = 2 * n
            /\ kind = "Edge" => Len(out.items) = n
            /\ kind = "Curve" => Len(out.items) = n

\* a triangle traversed for its global vertices: three, each shared by two edges
C11_Witness ==
    /\ Iterated /\ IsPolygonSubject(obj)
    /\ Len(PolygonOf(obj).edges) = 3
    /\ kind = "GlobalVertex"
    /\ Len(out.items) = 3

----------------------------------------------------------------------------
(* Geometry of the kernel algorithms.  Points and vectors are tuples of     *)
(* integers: <<x, y>> on a surface, <<x, y, z>> in ambient space.            *)

VAdd(p, q) == [i \in DOMAIN p |-> p[i] + q[i]]

VSub(p, q) == [i \in DOMAIN p |-> p[i] - q[i]]

VScale(k, v) == [i \in DOMAIN v |-> k * v[i]]

\* Surface::SweptCurve: the line `curve` swept along `path`
SweptCurve(curve, path) == [curve |-> curve, path |-> path]

xy_plane == SweptCurve(Curve(3, "line", <<0, 0, 0>>, <<1, 0, 0>>), <<0, 1, 0>>)

xz_plane == SweptCurve(Curve(3, "line", <<0, 0, 0>>, <<1, 0, 0>>), <<0, 0, 1>>)

\* Surface::point_from_surface_coords
point_from_surface_coords(s, p) ==
    VAdd(s.curve.origin, VAdd(VScale(p[1], s.curve.direction), VScale(p[2], s.path)))

\* Surface::vector_from_surface_coords
vector_from_surface_coords(s, v) ==
    VAdd(VScale(v[1], s.curve.direction), VScale(v[2], s.path))

\* Edge::line_segment_from_points(surface, [p, q]) with its geometry
Edge_line_segment(s, p, q) ==
    Edge(Local(Curve(2, "line", p, VSub(q, p)),
               Curve(3, "line", point_from_surface_coords(s, p),
                     vector_from_surface_coords(s, VSub(q, p)))),
         <<Vertex(0, GlobalVertex(point_from_surface_coords(s, p))),
           Vertex(1, GlobalVertex(point_from_surface_coords(s, q)))>>)

\* Edge::circle_from_radius(r) on a surface: a closed curve, so no vertices
Edge_circle(s, r) ==
    Edge(Local(Curve(2, "circle", <<0, 0>>, <<r, 0>>),
               Curve(3, "circle", point_from_surface_coords(s, <<0, 0>>),
                     vector_from_surface_coords(s, <<r, 0>>))),
         <<>>)

\* Cycle::polygon_from_points(surface, points) with its geometry
Cycle_polygon(s, ps) ==
    Cycle([i \in 1..Len(ps) |-> Edge_line_segment(s, ps[i], ps[(i % Len(ps)) + 1])])

\* fj_math::Transform: a rotation about the z axis by `quarter` quarter
\* turns followed by a translation by `offset`
Transform(quarter, offset) == [quarter |-> quarter, offset |-> offset]

Rotate(k, v) ==
    CASE k = 0 -> v
      [] k = 1 -> <<-v[2], v[1], v[3]>>
      [] k = 2 -> <<-v[1], -v[2], v[3]>>
      [] k = 3 -> <<v[2], -v[1], v[3]>>

\* Transform::transform_point
transform_point(t, p) == VAdd(Rotate(t.quarter, p), t.offset)

\* Transform::transform_vector
transform_vector(t, v) == Rotate(t.quarter, v)

\* Transform::transform_triangle
transform_triangle(t, tri) == [i \in 1..Len(tri) |-> transform_point(t, tri[i])]

\* Curve::transform
Curve_transform(c, t) ==
    Curve(c.dim, c.shape, transform_point(t, c.origin), transform_vector(t, c.direction))

\* Surface::transform
Surface_transform(s, t) ==
    SweptCurve(Curve_transform(s.curve, t), transform_vector(t, s.path))

----------------------------------------------------------------------------
(* algorithms/transform.rs *)

transform_vertex_KeepGlobal(vertex, t) == vertex

transform_vertex(vertex, t) ==
    LET position == transform_point(t, vertex.global.position)
        global == GlobalVertex(position)
    IN  Vertex(vertex.position, global)

transform_cycles_MapLocal(cycles, t) ==
    [c \in 1..Len(cycles) |->
        Cycle([e \in 1..Len(cycles[c].edges) |->
            LET edge == cycles[c].edges[e]
            IN  Edge(Local(edge.curve.canonical, Curve_transform(edge.curve.canonical, t)),
                     [v \in 1..Len(edge.vertices) |->
                         transform_vertex(edge.vertices[v], t)])])]

transform_cycles(cycles, t) ==
    [c \in 1..Len(cycles) |->
        Cycle([e \in 1..Len(cycles[c].edges) |->
            LET edge == cycles[c].edges[e]
                curve_local == edge.curve.local
                curve_canonical == Curve_transform(edge.curve.canonical, t)
                vertices == [v \in 1..Len(edge.vertices) |->
                                transform_vertex(edge.vertices[v], t)]
            IN  Edge(Local(curve_local, curve_canonical), vertices)])]

\* a pre-triangulated face holds (triangle, color) pairs
TriangleColor(triangle, color) == [triangle |-> triangle, color |-> color]

transform_face(face, t) ==
    IF face.variant = "Face"
    THEN LET surface == Surface_transform(face.surface, t)
             exteriors == transform_cycles(face.exteriors, t)
             interiors == transform_cycles(face.interiors, t)
             color == face.color
         IN  FaceBRep(surface, exteriors, interiors, color)
    ELSE FaceTriangles([i \in 1..Len(face.triangles) |->
             TriangleColor(transform_triangle(t, face.triangles[i].triangle),
                           face.triangles[i].color)])

transform_shape_NewList(fs, t) == fs

\* the caller's Vec<Face> after transform_shape(&mut faces, t)
transform_shape(fs, t) == [i \in 1..Len(fs) |-> transform_face(fs[i], t)]

----------------------------------------------------------------------------
(* algorithms/triangulate: approximation, Delaunay triangulation, polygon   *)
(* containment, and triangulate itself.                                     *)

\* s without the elements equal to their predecessor (Vec::dedup)
RECURSIVE Dedup(_)
Dedup(s) ==
    IF Len(s) < 2 THEN s
    ELSE IF s[1] = s[2] THEN Dedup(Tail(s))
         ELSE <<s[1]>> \o Dedup(Tail(s))

\* s without the elements that occurred before (a set, listed in first-seen order)
RECURSIVE Uniq(_)
Uniq(s) ==
    IF s = <<>> THEN <<>>
    ELSE LET front == Uniq(SubSeq(s, 1, Len(s) - 1))
             last == s[Len(s)]
         IN  IF last \in Range(front) THEN front ELSE Append(front, last)

\* the points approximating an edge: a line segment is exact at any
\* tolerance, so its approximation is its two vertices
EdgeApprox(edge, tolerance) ==
    [v \in 1..Len(edge.vertices) |->
        Local(VAdd(edge.curve.local.origin,
                   VScale(edge.vertices[v].position, edge.curve.local.direction)),
              edge.vertices[v].global.position)]

\* CycleApprox::new: the closed chain of the edges' points
CycleApprox(cycle, tolerance) ==
    Dedup(Concat([e \in 1..Len(cycle.edges) |-> EdgeApprox(cycle.edges[e], tolerance)]))

\* FaceApprox::new: all points, the exterior and the interiors
FaceApprox(face, tolerance) ==
    LET exterior == CycleApprox(face.exteriors[1], tolerance)
        interiors == [c \in 1..Len(face.interiors) |->
                         CycleApprox(face.interiors[c], tolerance)]
    IN  [points |-> Uniq(exterior \o Concat(interiors)),
         exterior |-> exterior,
         interiors |-> interiors]

\* twice the signed area of the triangle p, q, r
Orient(p, q, r) ==
    (q[1] - p[1]) * (r[2] - p[2]) - (q[2] - p[2]) * (r[1] - p[1])

SqNorm(v) == v[1] * v[1] + v[2] * v[2]

\* positive iff d is strictly inside the circle through p, q, r
InCircle(p, q, r, d) ==
    LET u == VSub(p, d)  v == VSub(q, d)  w == VSub(r, d)
        det == u[1] * (v[2] * SqNorm(w) - SqNorm(v) * w[2])
             - u[2] * (v[1] * SqNorm(w) - SqNorm(v) * w[1])
             + SqNorm(u) * (v[1] * w[2] - v[2] * w[1])
    IN  det * Orient(p, q, r)

\* delaunay::triangulate: the triangles over the points whose circumcircle
\* holds no other point in its inside; points are Local(point on the surface,
\* global point).  The result is unique when no four points lie on one
\* empty circle (GeneralPosition).
delaunay_triangulate(points) ==
    LET n == Len(points)
        P(i) == points[i].local
        Triple(m) == <<((m - 1) \div (n * n)) + 1,
                       (((m - 1) \div n) % n) + 1,
                       ((m - 1) % n) + 1>>
        IsDelaunay(t) ==
            /\ t[1] < t[2] /\ t[2] < t[3]
            /\ Orient(P(t[1]), P(t[2]), P(t[3])) # 0
            /\ \A k \in 1..n :
                  k \notin {t[1], t[2], t[3]} =>
                      InCircle(P(t[1]), P(t[2]), P(t[3]), P(k)) <= 0
        triples == SelectSeq([m \in 1..(n * n * n) |-> Triple(m)], IsDelaunay)
    IN  [j \in 1..Len(triples) |->
            <<points[triples[j][1]], points[triples[j][2]], points[triples[j][3]]>>]

\* no point lies on the circumcircle of a triangle of the triangulation
GeneralPosition(points) ==
    \A i \in 1..Len(delaunay_triangulate(points)) :
        LET t == delaunay_triangulate(points)[i]
        IN  \A k \in 1..Len(points) :
                points[k] \notin Range(t) =>
                    InCircle(t[1].local, t[2].local, t[3].local, points[k].local) # 0

\* Polygon::new(surface).with_exterior(..).with_interiors(..)
PolygonOfApprox(surface, exterior, interiors) ==
    [surface |-> surface, exterior |-> exterior, interiors |-> interiors]

\* the number of edges of the closed chain that the ray from p towards +x
\* crosses; an edge counts its lower end and not its upper end (half-open)
Crossings(p, chain) ==
    Cardinality({i \in 1..(Len(chain) - 1) :
        LET A == chain[i]
            B == chain[i + 1]
            dy == B[2] - A[2]
            side == (B[1] - A[1]) * (p[2] - A[2]) - (p[1] - A[1]) * dy
        IN  /\ (A[2] > p[2]) # (B[2] > p[2])
            /\ \/ dy > 0 /\ side > 0
               \/ dy < 0 /\ side < 0})

\* Polygon::contains_triangle: the centroid of the triangle is inside the
\* exterior and outside every interior.  Coordinates are scaled by three so
\* that the centroid has integer coordinates.
contains_triangle(polygon, tri) ==
    LET centroid3 == VAdd(tri[1], VAdd(tri[2], tri[3]))
        Scaled(chain) == [i \in 1..Len(chain) |-> VScale(3, chain[i])]
    IN  /\ Crossings(centroid3, Scaled(polygon.exterior)) % 2 = 1
        /\ \A h \in 1..Len(polygon.interiors) :
              Crossings(centroid3, Scaled(polygon.interiors[h])) % 2 = 0

\* Mesh::push_triangle
push_triangle(m, points, color) == Append(m, [points |-> points, color |-> color])

RECURSIVE PushAll(_, _, _)
PushAll(m, triangles, color) ==
    IF triangles = <<>> THEN m
    ELSE PushAll(push_triangle(m, [i \in 1..3 |-> Head(triangles)[i].canonical], color),
                 Tail(triangles), color)

RECURSIVE PushVerbatim(_, _)
PushVerbatim(m, triangles) ==
    IF triangles = <<>> THEN m
    ELSE PushVerbatim(push_triangle(m, Head(triangles).triangle, Head(triangles).color),
                      Tail(triangles))

triangulate_face_NoRetain(m, face, tolerance) ==
    IF face.variant = "Face"
    THEN PushAll(m, delaunay_triangulate(FaceApprox(face, tolerance).points), face.color)
    ELSE PushVerbatim(m, face.triangles)

triangulate_face_DropFirst(m, face, tolerance) ==
    IF face.variant = "Face"
    THEN LET approx == FaceApprox(face, tolerance)
             Locals(c) == [i \in 1..Len(c) |-> c[i].local]
             polygon == PolygonOfApprox(face.surface, Locals(approx.exterior),
                            [h \in 1..Len(approx.interiors) |-> Locals(approx.interiors[h])])
             Inside(t) == contains_triangle(polygon, [i \in 1..3 |-> t[i].local])
         IN  PushAll(m, SelectSeq(delaunay_triangulate(approx.points), Inside), face.color)
    ELSE PushVerbatim(m, Tail(face.triangles))

triangulate_face_Uncolored(m, face, tolerance) ==
    IF face.variant = "Face"
    THEN LET approx == FaceApprox(face, tolerance)
             Locals(c) == [i \in 1..Len(c) |-> c[i].local]
             polygon == PolygonOfApprox(face.surface, Locals(approx.exterior),
                            [h \in 1..Len(approx.interiors) |-> Locals(approx.interiors[h])])
             Inside(t) == contains_triangle(polygon, [i \in 1..3 |-> t[i].local])
         IN  PushAll(m, SelectSeq(delaunay_triangulate(approx.points), Inside), "none")
    ELSE PushVerbatim(m, face.triangles)

triangulate_face_RetainRejected(m, face, tolerance) ==
    IF face.variant = "Face"
    THEN LET approx == FaceApprox(face, tolerance)
             Locals(c) == [i \in 1..Len(c) |-> c[i].local]
             polygon == PolygonOfApprox(face.surface, Locals(approx.exterior),
                            [h \in 1..Len(approx.interiors) |-> Locals(approx.interiors[h])])
             Outside(t) == ~contains_triangle(polygon, [i \in 1..3 |-> t[i].local])
         IN  PushAll(m, SelectSeq(delaunay_triangulate(approx.points), Outside), face.color)
    ELSE PushVerbatim(m, face.triangles)

triangulate_face_Fan(m, face, tolerance) ==
    IF face.variant = "Face"
    THEN LET approx == FaceApprox(face, tolerance)
             points == approx.points
             Locals(c) == [i \in 1..Len(c) |-> c[i].local]
             polygon == PolygonOfApprox(face.surface, Locals(approx.exterior),
                            [h \in 1..Len(approx.interiors) |-> Locals(approx.interiors[h])])
             Inside(t) == contains_triangle(polygon, [i \in 1..3 |-> t[i].local])
             fan == [j \in 1..(Len(points) - 2) |-> <<points[1], points[j + 1], points[j + 2]>>]
         IN  PushAll(m, SelectSeq(fan, Inside), face.color)
    ELSE PushVerbatim(m, face.triangles)

\* the body of the loop of triangulate: the mesh m after one more face
triangulate_face(m, face, tolerance) ==
    IF face.variant = "Face"
    THEN LET surface == face.surface
             approx == FaceApprox(face, tolerance)
             points == approx.points
             Locals(c) == [i \in 1..Len(c) |-> c[i].local]
             face_as_polygon ==
                 PolygonOfApprox(surface, Locals(approx.exterior),
                     [h \in 1..Len(approx.interiors) |-> Locals(approx.interiors[h])])
             Retain(t) == contains_triangle(face_as_polygon, [i \in 1..3 |-> t[i].local])
             triangles == SelectSeq(delaunay_triangulate(points), Retain)
         IN  PushAll(m, triangles, face.color)
    ELSE PushVerbatim(m, face.triangles)

\* the mesh at the start and at the end of each of the first k turns of the loop
RECURSIVE MeshRun(_, _, _)
MeshRun(fs, k, tolerance) ==
    IF k = 0 THEN << <<>> >>
    ELSE LET before == MeshRun(fs, k - 1, tolerance)
         IN  Append(before, triangulate_face(before[k], fs[k], tolerance))

\* triangulate: the mesh after the last turn of the loop
triangulate(fs, tolerance) == MeshRun(fs, Len(fs), tolerance)[Len(fs) + 1]

----------------------------------------------------------------------------
(* Faces handed to the kernel algorithms *)

\* tests::simple: a = (0,0), b = (2,0), c = (2,2), d = (0,1)
QuadPoints == << <<0, 0>>, <<2, 0>>, <<2, 2>>, <<0, 1>> >>

QuadFace == FaceBRep(xy_plane, <<Cycle_polygon(xy_plane, QuadPoints)>>, <<>>, "red")

\* tests::simple_hole: a square with a four-cornered hole e, f, g, h.  The
\* corner f is at (3,2) rather than (3,1): with f = (3,1) the points a, b, e, f
\* lie on one empty circle and the Delaunay triangulation is not unique.
SquarePoints == << <<0, 0>>, <<4, 0>>, <<4, 4>>, <<0, 4>> >>

HolePoints == << <<1, 1>>, <<3, 2>>, <<3, 3>>, <<1, 2>> >>

HoleFace ==
    FaceBRep(xz_plane, <<Cycle_polygon(xz_plane, SquarePoints)>>,
             <<Cycle_polygon(xz_plane, HolePoints)>>, "blue")

\* a disk: its only edge is a circle, which has no vertices
DiskFace == FaceBRep(xy_plane, <<Cycle(<<Edge_circle(xy_plane, 2)>>)>>, <<>>, "green")

\* Face::Triangles: two triangles, each with its own color
MeshFace ==
    FaceTriangles(<<TriangleColor(<< <<0, 0, 0>>, <<1, 0, 0>>, <<0, 1, 0>> >>, "green"),
                    TriangleColor(<< <<0, 0, 1>>, <<0, 1, 1>>, <<1, 0, 1>> >>, "red")>>)

Offsets == {<<0, 0, 0>>, <<1, 0, 2>>}

Quarters == {0, 1}

Transforms == {Transform(k, o) : k \in Quarters, o \in Offsets}

Identity == Transform(0, <<0, 0, 0>>)

\* the most calls of transform_shape in one behaviour
MaxTransforms == 1

\* the subsystems of the 2D difference, the cycle reversal and the traversal at rest
BaseIdle ==
    /\ a = NoList /\ b = NoList /\ validation = NoList /\ result = NoList
    /\ handed = NoList /\ merged = FALSE /\ swept = FALSE
    /\ cyc = NoList /\ cur = NoList /\ calls = <<>>
    /\ obj = NoList /\ kind = "Face" /\ out = NoList

baseVars == <<a, b, validation, result, handed, merged, swept,
              cyc, cur, calls, obj, kind, out>>

\* everything but the kernel algorithms and the vertices at rest
CoreIdle == BaseIdle /\ LaterIdle

coreVars == <<baseVars, laterVars>>

----------------------------------------------------------------------------
(* Specification: transform_shape applied to the caller's faces *)

TransformFaces == {QuadFace, HoleFace, DiskFace, MeshFace}

InitTransform ==
    /\ pc = "start"
    /\ callerFaces \in SeqsOf(TransformFaces, 0, MaxFaces)
    /\ origFaces = callerFaces
    /\ xf = <<>>
    /\ tol = 0 /\ mesh = NoList /\ meshT = NoList /\ trace = NoList
    /\ CoreIdle /\ VertexIdle

\* transform_shape(&mut callerFaces, &t)
CallTransformShape ==
    /\ Len(xf) < MaxTransforms
    /\ \E t \in Transforms :
          /\ callerFaces' = transform_shape(callerFaces, t)
          /\ xf' = Append(xf, t)
    /\ pc' = "transform_shape"
    /\ meshT' = NoList     \* no mesh of the faces as they are now
    /\ UNCHANGED <<origFaces, tol, mesh, trace, coreVars, vertexVars>>

NextTransform == CallTransformShape

SpecTransform == InitTransform /\ [][NextTransform]_vars

----------------------------------------------------------------------------
(* Properties of the transform *)

\* the point p after the transforms ts, applied in order
RECURSIVE MapPoint(_, _)
MapPoint(ts, p) ==
    IF ts = <<>> THEN p ELSE MapPoint(Tail(ts), transform_point(Head(ts), p))

RECURSIVE MapVector(_, _)
MapVector(ts, v) ==
    IF ts = <<>> THEN v ELSE MapVector(Tail(ts), transform_vector(Head(ts), v))

RECURSIVE MapFace(_, _)
MapFace(ts, f) ==
    IF ts = <<>> THEN f ELSE MapFace(Tail(ts), transform_face(f, Head(ts)))

Transformed == pc = "transform_shape" /\ xf # <<>>

VertexIsMapOf(v1, v0) ==
    /\ v1.position = v0.position
    /\ v1.global = GlobalVertex(MapPoint(xf, v0.global.position))

EdgeIsMapOf(e1, e0) ==
    /\ e1.curve.local = e0.curve.local
    /\ e1.curve.canonical.dim = e0.curve.canonical.dim
    /\ e1.curve.canonical.shape = e0.curve.canonical.shape
    /\ e1.curve.canonical.origin = MapPoint(xf, e0.curve.canonical.origin)
    /\ e1.curve.canonical.direction = MapVector(xf, e0.curve.canonical.direction)
    /\ Len(e1.vertices) = Len(e0.vertices)
    /\ \A v \in 1..Len(e0.vertices) : VertexIsMapOf(e1.vertices[v], e0.vertices[v])

CyclesAreMapOf(cs1, cs0) ==
    /\ Len(cs1) = Len(cs0)
    /\ \A c \in 1..Len(cs0) :
          /\ Len(cs1[c].edges) = Len(cs0[c].edges)
          /\ \A e \in 1..Len(cs0[c].edges) :
                EdgeIsMapOf(cs1[c].edges[e], cs0[c].edges[e])

\* C17: a transformed boundary-defined face keeps every local curve and
\* local vertex position, has each canonical curve and each global vertex
\* mapped, keeps absent vertices absent, and keeps the number and order of
\* cycles and edges, the role of each cycle and the color.
C17_TransformKeepsLocalMapsCanonical ==
    Transformed =>
        \A i \in 1..Len(origFaces) :
            origFaces[i].variant = "Face" =>
                /\ callerFaces[i].variant = "Face"
                /\ callerFaces[i].color = origFaces[i].color
                /\ CyclesAreMapOf(callerFaces[i].exteriors, origFaces[i].exteriors)
                /\ CyclesAreMapOf(callerFaces[i].interiors, origFaces[i].interiors)

\* a face with a hole and a disk (whose edge has no vertices), both moved
C17_Witness ==
    /\ Transformed
    /\ xf[1] = Transform(1, <<1, 0, 2>>)
    /\ Len(origFaces) = 2
    /\ origFaces[1] = HoleFace /\ origFaces[2] = DiskFace
    /\ callerFaces[1] # HoleFace /\ callerFaces[2] # DiskFace
    /\ callerFaces[2].exteriors[1].edges[1].vertices = <<>>

----------------------------------------------------------------------------
(* Specification: triangulate, before and after transform_shape *)

Tolerances == {1, 2}

\* faces bounded by line segments whose points are in general position, and
\* a pre-triangulated face
TriangulateFaces ==
    {f \in {QuadFace, HoleFace, MeshFace} :
        f.variant = "Face" => GeneralPosition(FaceApprox(f, 1).points)}

InitTriangulate ==
    /\ pc = "start"
    /\ callerFaces \in SeqsOf(TriangulateFaces, 0, MaxFaces)
    /\ origFaces = callerFaces
    /\ xf = <<>>
    /\ tol \in Tolerances
    /\ mesh = NoList /\ meshT = NoList /\ trace = NoList
    /\ CoreIdle /\ VertexIdle

\* triangulate(callerFaces.clone(), tol, &mut debug_info); `trace` keeps the
\* mesh as it was at the start and at the end of each turn of the loop
CallTriangulate ==
    /\ IF xf = <<>>
       THEN mesh' = triangulate(callerFaces, tol) /\ UNCHANGED meshT
       ELSE meshT' = triangulate(callerFaces, tol) /\ UNCHANGED mesh
    /\ trace' = MeshRun(callerFaces, Len(callerFaces), tol)
    /\ pc' = "triangulate"
    /\ UNCHANGED <<callerFaces, origFaces, xf, tol, coreVars, vertexVars>>

NextTriangulate == CallTriangulate \/ CallTransformShape

SpecTriangulate == InitTriangulate /\ [][NextTriangulate]_vars

----------------------------------------------------------------------------
(* Properties of triangulate *)

Triangulated == pc = "triangulate"

\* the mesh the last call of triangulate returned
LastMesh == IF xf = <<>> THEN mesh ELSE meshT

\* the part of the mesh pushed in turn i of the loop
Segment(i) == SubSeq(LastMesh, Len(trace[i]) + 1, Len(trace[i + 1]))

\* C14: a pre-triangulated face contributes exactly its own triangles to the
\* mesh: as many, in the same order, with the same points and the same
\* color each, whatever the tolerance.
C14_TrianglesVerbatim ==
    Triangulated =>
        \A i \in 1..Len(callerFaces) :
            callerFaces[i].variant = "Triangles" =>
                /\ Len(Segment(i)) = Len(callerFaces[i].triangles)
                /\ \A j \in 1..Len(callerFaces[i].triangles) :
                      /\ Segment(i)[j].points = callerFaces[i].triangles[j].triangle
                      /\ Segment(i)[j].color = callerFaces[i].triangles[j].color

\* a pre-triangulated face after a boundary-defined one, at the finer tolerance
C14_Witness ==
    /\ Triangulated /\ xf = <<>>
    /\ tol = 1
    /\ callerFaces = <<QuadFace, MeshFace>>
    /\ Len(mesh) = 4
    /\ mesh[3].color = "green" /\ mesh[4].color = "red"

\* the candidate triangles of a boundary-defined face
Candidates(face) == delaunay_triangulate(FaceApprox(face, tol).points)

ChainLocals(chain) == [i \in 1..Len(chain) |-> chain[i].local]

FacePolygon(face) ==
    LET approx == FaceApprox(face, tol)
    IN  PolygonOfApprox(face.surface, ChainLocals(approx.exterior),
            [h \in 1..Len(approx.interiors) |-> ChainLocals(approx.interiors[h])])

TriLocals(c) == <<c[1].local, c[2].local, c[3].local>>

TriGlobals(c) == <<c[1].canonical, c[2].canonical, c[3].canonical>>

\* the candidate passes the containment test of its face
Passes(face, c) == contains_triangle(FacePolygon(face), TriLocals(c))

\* C12: every triangle pushed for a boundary-defined face is a candidate of
\* the unconstrained triangulation that passed the containment test against
\* the exterior and all interiors, and no candidate that fails it is pushed.
C12_OnlyContainedKept ==
    Triangulated =>
        \A i \in 1..Len(callerFaces) :
            callerFaces[i].variant = "Face" =>
                LET face == callerFaces[i]
                    segment == Segment(i)
                    polygon == FacePolygon(face)
                    candidates == Range(Candidates(face))
                    passed == {c \in candidates : contains_triangle(polygon, TriLocals(c))}
                    pushed == {Range(segment[j].points) : j \in 1..Len(segment)}
                IN  /\ \A j \in 1..Len(segment) :
                          \E c \in passed : TriGlobals(c) = segment[j].points
                    /\ \A c \in candidates \ passed : Range(TriGlobals(c)) \notin pushed

\* the face with a hole: ten candidates, two of them inside the hole
C12_Witness ==
    /\ Triangulated /\ xf = <<>>
    /\ callerFaces = <<HoleFace>>
    /\ Len(Candidates(HoleFace)) = 10
    /\ \E c \in Range(Candidates(HoleFace)) : ~Passes(HoleFace, c)
    /\ Len(mesh) = 8

\* the points of the approximation of the face with the given global points
LocalsOf(face, globals) ==
    LET points == Range(FaceApprox(face, tol).points)
    IN  [k \in 1..Len(globals) |->
            (CHOOSE pt \in points : pt.canonical = globals[k]).local]

\* the centroid of the triangle (three times it) is inside the closed chain
CentroidInside(tri, chain) ==
    Crossings(VAdd(tri[1], VAdd(tri[2], tri[3])),
              [i \in 1..Len(chain) |-> VScale(3, chain[i])]) % 2 = 1

\* C13: for a face with holes no pushed triangle has its centroid inside a
\* hole, none has its three corners on one hole, and some pushed triangle
\* joins the exterior with a hole.
C13_NoTriangleInHole ==
    Triangulated =>
        \A i \in 1..Len(callerFaces) :
            (callerFaces[i].variant = "Face" /\ callerFaces[i].interiors # <<>>) =>
                LET face == callerFaces[i]
                    segment == Segment(i)
                    polygon == FacePolygon(face)
                    tris == [j \in 1..Len(segment) |-> LocalsOf(face, segment[j].points)]
                IN  /\ \A j \in 1..Len(tris) :
                          \A h \in 1..Len(polygon.interiors) :
                              /\ ~CentroidInside(tris[j], polygon.interiors[h])
                              /\ ~(Range(tris[j]) \subseteq Range(polygon.interiors[h]))
                    /\ \E j \in 1..Len(tris) :
                          \E h \in 1..Len(polygon.interiors) :
                              /\ Range(tris[j]) \cap Range(polygon.exterior) # {}
                              /\ Range(tris[j]) \cap Range(polygon.interiors[h]) # {}

\* tests::simple_hole: [a, e, h] and [a, d, h] are in the mesh, on the xz plane
C13_Witness ==
    /\ Triangulated /\ xf = <<>>
    /\ callerFaces = <<HoleFace>>
    /\ \E j \in 1..Len(mesh) :
          Range(mesh[j].points) = {<<0, 0, 0>>, <<1, 0, 1>>, <<1, 0, 2>>}
    /\ \E j \in 1..Len(mesh) :
          Range(mesh[j].points) = {<<0, 0, 0>>, <<0, 0, 4>>, <<1, 0, 2>>}

\* C15: every triangle pushed for a boundary-defined face carries the color
\* of the face, and its corners are the global points of a candidate that
\* passed, each the image of the local point under the surface of the face;
\* the triangles of the faces follow each other in the order of the faces.
C15_ColorGlobalOrder ==
    Triangulated =>
        /\ \A i \in 1..Len(callerFaces) :
              /\ Len(trace[i + 1]) >= Len(trace[i])
              /\ SubSeq(LastMesh, 1, Len(trace[i + 1])) = trace[i + 1]
        /\ \A i \in 1..Len(callerFaces) :
              callerFaces[i].variant = "Face" =>
                  LET face == callerFaces[i]
                      segment == Segment(i)
                      polygon == FacePolygon(face)
                      passed == {c \in Range(Candidates(face)) :
                                    contains_triangle(polygon, TriLocals(c))}
                  IN  \A j \in 1..Len(segment) :
                          /\ segment[j].color = face.color
                          /\ \E c \in passed :
                                \A k \in 1..3 :
                                    /\ segment[j].points[k] = c[k].canonical
                                    /\ segment[j].points[k] =
                                          point_from_surface_coords(face.surface, c[k].local)

\* two faces of different color on different, moved surfaces
C15_Witness ==
    /\ Triangulated
    /\ origFaces = <<HoleFace, QuadFace>>
    /\ xf = <<Transform(1, <<1, 0, 2>>)>>
    /\ Len(meshT) = 10
    /\ \A j \in 1..8 : meshT[j].color = "blue"
    /\ \A j \in 9..10 : meshT[j].color = "red"

\* Point::to_xyz
to_xyz(p) == <<p[1], p[2], 0>>

\* Mesh::contains_triangle
Mesh_contains_triangle(m, tri) ==
    \E j \in 1..Len(m) : Range(m[j].points) = {to_xyz(tri[1]), to_xyz(tri[2]), to_xyz(tri[3])}

\* C16: the quadrilateral a, b, c, d of tests::simple is split along its
\* Delaunay diagonal b-d: [a, b, d] and [b, c, d] are in the mesh, [a, b, c]
\* and [a, c, d] are not.
C16_QuadDelaunayDiagonal ==
    (Triangulated /\ xf = <<>> /\ callerFaces = <<QuadFace>>) =>
        LET qa == QuadPoints[1]  qb == QuadPoints[2]
            qc == QuadPoints[3]  qd == QuadPoints[4]
        IN  /\ Mesh_contains_triangle(mesh, <<qa, qb, qd>>)
            /\ Mesh_contains_triangle(mesh, <<qb, qc, qd>>)
            /\ ~Mesh_contains_triangle(mesh, <<qa, qb, qc>>)
            /\ ~Mesh_contains_triangle(mesh, <<qa, qc, qd>>)
            /\ Len(mesh) = 2

C16_Witness ==
    /\ Triangulated /\ xf = <<>> /\ callerFaces = <<QuadFace>>
    /\ Len(mesh) = 2
    /\ Mesh_contains_triangle(mesh, <<QuadPoints[1], QuadPoints[2], QuadPoints[4]>>)

\* the triangle after the transforms applied so far
MapEntry(e) ==
    [points |-> [k \in 1..Len(e.points) |-> MapPoint(xf, e.points[k])], color |-> e.color]

\* the same triangle, whatever the order of its corners
SameTriangle(e1, e2) == Range(e1.points) = Range(e2.points) /\ e1.color = e2.color

Count(m, e) == Cardinality({j \in 1..Len(m) : SameTriangle(m[j], e)})

\* C18: the mesh of the transformed faces holds the same triangles, with
\* the same colors, as the mesh of the original faces with the transform
\* applied to every corner.
C18_TransformCommutes ==
    (mesh # NoList /\ meshT # NoList) =>
        /\ Len(meshT) = Len(mesh)
        /\ \A j \in 1..Len(mesh) :
              Count(meshT, MapEntry(mesh[j])) = Count(mesh, mesh[j])

\* all three kinds of face, triangulated before and after a rotation with
\* a translation
C18_Witness ==
    /\ mesh # NoList /\ meshT # NoList
    /\ Len(origFaces) = 2
    /\ origFaces[1] = HoleFace /\ origFaces[2] = MeshFace
    /\ xf = <<Transform(1, <<1, 0, 2>>)>>
    /\ Len(meshT) = 10
    /\ meshT # mesh

----------------------------------------------------------------------------
(* topology/vertex.rs: a Vertex refers to a point of its shape by handle *)

\* the handles a shape has given out
NHandles == 3

Handles == 1..NHandles

VertexPoints == {<<0, 0, 0>>, <<1, 0, 0>>, <<1, 1, 0>>}

\* Vertex { point: Handle<Point<3>> }
TopoVertex(handle) == [point |-> handle]

\* Handle::get, through Vertex::point
Vertex_point(shape, v) == shape[v.point]

\* Point<3> as Hash: not injective
Point_hash(p) == (p[1] + p[2] + p[3]) % 2

Vertex_eq_ByHandle(shape, v, w) == v.point = w.point

\* the square of the distance between two points
DistSq(p, q) ==
    (p[1] - q[1]) * (p[1] - q[1]) + (p[2] - q[2]) * (p[2] - q[2])
        + (p[3] - q[3]) * (p[3] - q[3])

\* Shape::with_minimum_distance: the values tried, in the unit of the coordinates
MinDistances == {1, 2}

Vertex_eq_WithinMinimum(shape, v, w) ==
    DistSq(shape[v.point], shape[w.point]) < minDist * minDist

\* impl PartialEq for Vertex
Vertex_eq(shape, v, w) == Vertex_point(shape, v) = Vertex_point(shape, w)

\* impl Hash for Vertex
Vertex_hash(shape, v) == Point_hash(Vertex_point(shape, v))

InitVertex ==
    /\ pc = "start"
    /\ store \in [Handles -> VertexPoints]
    /\ va \in {TopoVertex(h) : h \in Handles}
    /\ vb \in {TopoVertex(h) : h \in Handles}
    /\ cmp = NoList
    /\ minDist \in MinDistances
    /\ CoreIdle /\ KernelIdle

\* va == vb, and the hashes of both
CallVertexEq ==
    /\ pc = "start"
    /\ cmp' = [eq |-> Vertex_eq(store, va, vb),
               hash_a |-> Vertex_hash(store, va),
               hash_b |-> Vertex_hash(store, vb)]
    /\ pc' = "compared"
    /\ UNCHANGED <<store, va, vb, minDist, coreVars, kernelVars>>

NextVertex == CallVertexEq

SpecVertex == InitVertex /\ [][NextVertex]_vars

----------------------------------------------------------------------------
(* The interiors of the 2D difference as a whole *)

\* C24: with A non-empty the interiors of the result are the interior
\* cycles of A's faces, as they are in A and in face order, followed by the
\* exterior cycles of B's faces, reversed and in face order; their number is
\* |interiors(A)| + |exteriors(B)|, and no slot of the result holds an
\* interior cycle of B.
C24_InteriorsAreAHolesThenBExteriors ==
    FaceBuilt =>
        /\ Len(ResultFace.interiors) = Len(AInteriors) + Len(BExteriors)
        /\ Len(ResultFace.exteriors) = Len(AExteriors)
        /\ \A i \in 1..Len(AInteriors) : ResultFace.interiors[i] = AInteriors[i]
        /\ \A j \in 1..Len(BExteriors) :
              CycleIsReverseOf(ResultFace.interiors[Len(AInteriors) + j], BExteriors[j])

\* what the code does: number, order and origin of the interiors are as in
\* C24, but the interior cycles of A arrive reversed like the exteriors of B
C24_InteriorsByOrigin ==
    FaceBuilt =>
        /\ Len(ResultFace.interiors) = Len(AInteriors) + Len(BExteriors)
        /\ Len(ResultFace.exteriors) = Len(AExteriors)
        /\ \A i \in 1..Len(AInteriors) :
              CycleIsReverseOf(ResultFace.interiors[i], AInteriors[i])
        /\ \A j \in 1..Len(BExteriors) :
              CycleIsReverseOf(ResultFace.interiors[Len(AInteriors) + j], BExteriors[j])

----------------------------------------------------------------------------
(* ShapeProcessor: the app's (fj-app/src/main.rs) and the library's          *)
(* (fj-operations/src/shape_processor.rs).  A floating-point number is      *)
(* finite, infinite or not a number; a finite one is an integer count of the *)
(* smallest positive number, so that dividing a small number underflows to   *)
(* zero.                                                                     *)

Float(k, v) == [k |-> k, v |-> v]

Fin(n) == Float("fin", n)

NaN == Float("nan", 0)

PosInf == Float("inf", 1)

NegInf == Float("inf", -1)

Some(x) == [tag |-> "some", val |-> x]

\* x <= 0.
LeZero(x) ==
    CASE x.k = "fin" -> x.v <= 0
      [] x.k = "inf" -> x.v < 0
      [] x.k = "nan" -> FALSE

\* x > 0.
GtZero(x) ==
    CASE x.k = "fin" -> x.v > 0
      [] x.k = "inf" -> x.v > 0
      [] x.k = "nan" -> FALSE

IsFinite(x) == x.k = "fin"

\* Scalar::MAX
ScalarMax == 1000000000

\* Scalar::from_f64(1000.)
ToleranceDivisor == 1000

\* Scalar::from_f64: a Scalar is never NaN
Scalar_from_f64(x) ==
    IF x.k = "nan" THEN [tag |-> "panic"] ELSE [tag |-> "ok", val |-> x]

\* Tolerance::from_scalar: positive and finite, or InvalidTolerance
Tolerance_from_scalar(x) ==
    IF GtZero(x) /\ IsFinite(x)
    THEN [tag |-> "ok", val |-> x]
    ELSE [tag |-> "err", error |-> "InvalidTolerance"]

\* what a constructor returns: Ok(Self { tolerance }), Err(..) or a panic
Built(tag, tolerance) == [tag |-> tag, tolerance |-> tolerance]

\* main.rs: ShapeProcessor::new(tolerance: Option<f64>)
ShapeProcessor_new(tolerance) ==
    IF tolerance.tag = "some" /\ LeZero(tolerance.val)
    THEN Built("err", NoList)
    ELSE IF tolerance.tag = "some"
         THEN IF Scalar_from_f64(tolerance.val).tag = "panic"
              THEN Built("panic", NoList)
              ELSE Built("ok", Some(Scalar_from_f64(tolerance.val).val))
         ELSE Built("ok", NoList)

\* the library: ShapeProcessor { tolerance: Option<Tolerance> }, the
\* tolerance made from the user's number by Tolerance::from_scalar
ShapeProcessor_literal(tolerance) ==
    IF tolerance.tag = "some"
    THEN IF tolerance.val.k = "nan" THEN Built("panic", NoList)
         ELSE IF Tolerance_from_scalar(tolerance.val).tag = "err"
              THEN Built("err", NoList)
              ELSE Built("ok", Some(Tolerance_from_scalar(tolerance.val).val))
    ELSE Built("ok", NoList)

\* the smallest extent greater than zero, or Scalar::MAX when there is none
RECURSIVE MinExtent(_, _)
MinExtent(components, min_extent) ==
    IF components = <<>> THEN min_extent
    ELSE LET extent == Head(components)
         IN  MinExtent(Tail(components),
                       IF extent > 0 /\ extent < min_extent THEN extent ELSE min_extent)

\* min_extent / Scalar::from_f64(1000.)
DefaultTolerance(size) == Fin(MinExtent(size, ScalarMax) \div ToleranceDivisor)

\* what process returns
Processed(tag, error, tolerance, triangulated) ==
    [tag |-> tag, error |-> error, tolerance |-> tolerance, triangulated |-> triangulated]

\* main.rs: ShapeProcessor::process
App_process(self, size, to_shape) ==
    LET chosen == IF self.tolerance.tag = "none"
                  THEN DefaultTolerance(size)
                  ELSE self.tolerance.val
    IN  IF self.tolerance.tag = "none" /\ ~GtZero(chosen)
        THEN Processed("panic", "none", NoList, FALSE)
        ELSE Processed("ok", "none", chosen, TRUE)

\* shape_processor.rs: ShapeProcessor::process
ShapeProcessor_process(self, size, to_shape) ==
    LET chosen == IF self.tolerance.tag = "none"
                  THEN Tolerance_from_scalar(DefaultTolerance(size))
                  ELSE [tag |-> "ok", val |-> self.tolerance.val]
    IN  IF chosen.tag = "err" THEN Processed("err", "Extent", NoList, FALSE)
        ELSE IF to_shape = "err" THEN Processed("err", "ToShape", chosen.val, FALSE)
        ELSE Processed("ok", "none", chosen.val, TRUE)

\* the numbers a user may pass as --tolerance
UserTolerances == {Fin(-1000), Fin(0), Fin(1), Fin(500), NaN, PosInf, NegInf}

\* the extents of a bounding box: none, the smallest positive number, one
\* and three units
ExtentValues == {0, 1, 1000, 3000}

Builds == {"app", "library"}

InitProcess ==
    /\ pc = "start"
    /\ build \in Builds
    /\ argTol \in {NoList} \cup {Some(x) : x \in UserTolerances}
    /\ extents \in [1..3 -> ExtentValues]
    /\ convert \in {"ok", "err"}
    /\ processor = NoList /\ processed = NoList
    /\ BaseIdle /\ KernelIdle /\ VertexIdle /\ AppIdle /\ RegIdle

\* ShapeProcessor::new(args.tolerance)?, or the library's struct literal
CallNew ==
    /\ pc = "start"
    /\ processor' = IF build = "app" THEN ShapeProcessor_new(argTol)
                    ELSE ShapeProcessor_literal(argTol)
    /\ pc' = "new"
    /\ UNCHANGED <<build, argTol, extents, convert, processed,
                   baseVars, kernelVars, vertexVars, appVars, regVars>>

\* shape_processor.process(&shape), reached only with a processor
CallProcess ==
    /\ pc = "new"
    /\ processor.tag = "ok"
    /\ processed' = IF build = "app" THEN App_process(processor, extents, convert)
                    ELSE ShapeProcessor_process(processor, extents, convert)
    /\ pc' = "process"
    /\ UNCHANGED <<build, argTol, processor, extents, convert,
                   baseVars, kernelVars, vertexVars, appVars, regVars>>

NextProcess == CallNew \/ CallProcess

SpecProcess == InitProcess /\ [][NextProcess]_vars

----------------------------------------------------------------------------
(* Properties of the ShapeProcessor.                                         *)

PositiveFinite(x) == GtZero(x) /\ IsFinite(x)

UserToleranceInvalid == argTol.tag = "some" /\ ~PositiveFinite(argTol.val)

Constructed == pc \in {"new", "process"}

HasProcessed == pc = "process"

\* C22: a user tolerance that is not a positive finite number is rejected
\* when the processor is made (no processor comes back), and no shape is
\* ever triangulated with a tolerance that is not a positive finite number.
C22_ToleranceAlwaysPositiveFinite ==
    /\ (Constructed /\ UserToleranceInvalid) => processor.tag # "ok"
    /\ (HasProcessed /\ processed.triangulated) => PositiveFinite(processed.tolerance)

\* the part of C22 the code keeps: zero, negative numbers and NaN never get
\* as far as a processor, and a default tolerance that reaches triangulation
\* is positive and finite
C22_NonPositiveRejected ==
    /\ (Constructed /\ argTol.tag = "some"
            /\ (LeZero(argTol.val) \/ argTol.val.k = "nan"))
          => processor.tag # "ok"
    /\ (HasProcessed /\ processed.triangulated /\ processor.tolerance.tag = "none")
          => PositiveFinite(processed.tolerance)
    /\ (HasProcessed /\ processed.triangulated /\ build = "library")
          => PositiveFinite(processed.tolerance)

ZeroSize == \A i \in 1..3 : extents[i] <= 0

SmallestPositiveExtent ==
    CHOOSE e \in {extents[i] : i \in 1..3} :
        e > 0 /\ \A i \in 1..3 : extents[i] > 0 => e <= extents[i]

\* the default tolerance of a model with a positive extent
DefaultUsed ==
    LET t == SmallestPositiveExtent \div ToleranceDivisor
    IN  IF t > 0
        THEN processed.tag # "panic" /\ processed.tolerance = Fin(t)
                /\ (processed.triangulated <=> (build = "app" \/ convert = "ok"))
        ELSE ~processed.triangulated
                /\ (processed.tag = "panic" \/ processed.error = "Extent")

\* a user tolerance is used as it is
UserUsed ==
    /\ processed.tolerance = processor.tolerance.val
    /\ processed.triangulated <=> (build = "app" \/ convert = "ok")

\* C23: without a user tolerance process takes the smallest extent greater
\* than zero, divided by 1000; a model of zero size is not triangulated and
\* gives Error::Extent; a user tolerance is used unchanged.
C23_DefaultToleranceOrExtentError ==
    HasProcessed =>
        /\ (processor.tolerance.tag = "none" /\ ~ZeroSize) => DefaultUsed
        /\ (processor.tolerance.tag = "none" /\ ZeroSize)
              => (~processed.triangulated /\ processed.error = "Extent")
        /\ processor.tolerance.tag = "some" => UserUsed

\* the parts of C23 the code keeps
C23_DefaultAndUserTolerance ==
    HasProcessed =>
        /\ (processor.tolerance.tag = "none" /\ ~ZeroSize) => DefaultUsed
        /\ processor.tolerance.tag = "some" => UserUsed

\* what the code does with a model of zero size: Scalar::MAX / 1000
C23_ZeroSizeUsesScalarMax ==
    (HasProcessed /\ processor.tolerance.tag = "none" /\ ZeroSize) =>
        /\ processed.tolerance = Fin(ScalarMax \div ToleranceDivisor)
        /\ processed.error # "Extent"
        /\ processed.triangulated <=> (build = "app" \/ convert = "ok")

----------------------------------------------------------------------------
(* The event loop of the app (fj-app/src/main.rs, main).  Every call of the  *)
(* closure handles one event; before it looks at the event it asks the       *)
(* watcher for a new shape.                                                  *)

\* how many shapes the watcher delivers
MaxReloads == 3

\* the bounding boxes of the shapes the watcher delivers
Aabbs == {1, 2}

Events == {"CloseRequested", "Resized", "KeyboardInput", "CursorMoved",
           "MouseInput", "MouseWheel", "MainEventsCleared",
           "RedrawRequested", "Other"}

\* ProcessedShape { aabb, .. }
ProcessedShape(aabb) == [tag |-> "some", aabb |-> aabb]

\* Camera::new(&aabb): the n-th camera made, its planes from the box, not
\* yet moved
Camera_new(aabb, n) ==
    [tag |-> "some", serial |-> n, from |-> aabb, planes |-> aabb, moved |-> FALSE]

\* camera.update_planes(&aabb)
Camera_update_planes(camera, aabb) == [camera EXCEPT !.planes = aabb]

\* input_handler.handle_cursor_moved / input_handler.update: the camera is
\* moved in place
Camera_moved(camera, m) == [camera EXCEPT !.moved = m]

ReceiveCamera_Always(camera, aabb, n) == Camera_new(aabb, n)

\* if camera.is_none() { camera = Some(Camera::new(&new_shape.aabb)); }
ReceiveCamera(camera, aabb, n) ==
    IF camera.tag = "none" THEN Camera_new(aabb, n) ELSE camera

\* the shape and the camera after watcher.receive() gave new_shape
AfterReceive(received) ==
    IF received.tag = "none"
    THEN [s |-> appShape, camera |-> appCamera, made |-> camerasMade, log |-> loaded]
    ELSE [s |-> ProcessedShape(received.val),
          camera |-> ReceiveCamera(appCamera, received.val, camerasMade + 1),
          made |-> IF ReceiveCamera(appCamera, received.val, camerasMade + 1) = appCamera
                   THEN camerasMade ELSE camerasMade + 1,
          log |-> Append(loaded, received.val)]

\* if let (Some(shape), Some(camera)) = (&shape, &mut camera)
BothPresent(s, camera) == s.tag = "some" /\ camera.tag = "some"

\* what the handler did with its event
Handled(event, drawn, camera) == [event |-> event, drawn |-> drawn, camera |-> camera]

InitApp ==
    /\ pc = "loop"
    /\ appShape = NoList /\ appCamera = NoList
    /\ loaded = <<>> /\ handled = NoList
    /\ camerasMade = 0 /\ control = "Poll"
    /\ BaseIdle /\ KernelIdle /\ VertexIdle /\ ProcIdle /\ RegIdle

\* processing the received shape panics, or the renderer fails to draw: the
\* closure never returns
HandlerPanics ==
    /\ pc = "loop" /\ control = "Poll"
    /\ control' = "Panic"
    /\ UNCHANGED <<pc, appShape, appCamera, loaded, handled, camerasMade,
                   baseVars, kernelVars, vertexVars, procVars, regVars>>

\* one call of the closure that returns
HandleEvent ==
    /\ pc = "loop" /\ control = "Poll"
    /\ \E event \in Events, m \in BOOLEAN, exit \in BOOLEAN,
          received \in {NoList} \cup {Some(x) : x \in Aabbs} :
        /\ received.tag = "some" => Len(loaded) < MaxReloads
        /\ LET after == AfterReceive(received)
               draws == event = "RedrawRequested" /\ BothPresent(after.s, after.camera)
               moves == \/ event = "CursorMoved" /\ after.camera.tag = "some"
                        \/ event = "MainEventsCleared" /\ BothPresent(after.s, after.camera)
           IN  /\ appShape' = after.s
               /\ appCamera' =
                     IF draws THEN Camera_update_planes(after.camera, after.s.aabb)
                     ELSE IF moves THEN Camera_moved(after.camera, m)
                     ELSE after.camera
               /\ camerasMade' = after.made
               /\ loaded' = after.log
               /\ handled' = Handled(event, draws, after.camera)
               /\ control' = IF event = "CloseRequested"
                                \/ (event = "KeyboardInput" /\ exit)
                             THEN "Exit" ELSE "Poll"
    /\ UNCHANGED <<pc, baseVars, kernelVars, vertexVars, procVars, regVars>>

NextApp == HandleEvent \/ HandlerPanics

SpecApp == InitApp /\ [][NextApp]_vars

\* C25: the camera is absent until the first shape arrives, it is the one
\* camera ever made, made from the first shape's bounding box, later shapes
\* replace the shape but not the camera; a stored shape implies a camera;
\* a draw is issued only on a redraw request with both present.
C25_CameraFromFirstShapeOnly ==
    /\ loaded = <<>> => (appShape.tag = "none" /\ appCamera.tag = "none"
                            /\ camerasMade = 0)
    /\ loaded # <<>> =>
          /\ appShape = ProcessedShape(loaded[Len(loaded)])
          /\ appCamera.tag = "some"
          /\ appCamera.serial = 1 /\ appCamera.from = loaded[1]
          /\ camerasMade = 1
    /\ appShape.tag = "some" => appCamera.tag = "some"
    /\ handled # NoList =>
          /\ handled.drawn =>
                /\ handled.event = "RedrawRequested"
                /\ appShape.tag = "some" /\ handled.camera.tag = "some"
                /\ appCamera.planes = appShape.aabb
          /\ (handled.event = "RedrawRequested" /\ appShape.tag = "some")
                => handled.drawn

\* a second shape with another bounding box has arrived, and a frame was drawn
C25_Witness ==
    /\ Len(loaded) >= 2 /\ loaded[2] # loaded[1]
    /\ handled.drawn
    /\ appCamera.from = loaded[1] /\ appShape.aabb # appCamera.from

----------------------------------------------------------------------------
(* Registry::publish_crates (tools/release-operator/src/registry.rs).  A     *)
(* crate carries what its environment answers: whether its path exists, its  *)
(* own version, the response of the registry and whether cargo publish       *)
(* succeeds.                                                                 *)

\* how many crates the registry is given
MaxCrates == 2

Versions == {1, 2}

Responses == {[status |-> "NOT_FOUND", theirs |-> 0],
              [status |-> "SERVER_ERROR", theirs |-> 0]}
             \cup {[status |-> "OK", theirs |-> v] : v \in Versions}

Crates == [exists : BOOLEAN, ours : Versions, resp : Responses, publishes : BOOLEAN]

\* Crate::validate
Crate_validate(c) == IF c.exists THEN "Ok" ELSE "Err"

\* Crate::determine_state: a CrateState, or "Err"
Crate_determine_state(c) ==
    IF c.resp.status = "NOT_FOUND" THEN "Unknown"
    ELSE IF c.resp.status # "OK" THEN "Err"
    ELSE IF c.ours = c.resp.theirs THEN "Published"
    ELSE IF c.ours < c.resp.theirs THEN "Behind"
    ELSE "Ahead"

\* Crate::submit
Crate_submit(c) == IF c.publishes THEN "Ok" ELSE "Err"

Submits_Always(state) == TRUE

\* CrateState::Published | CrateState::Behind => continue,
\* CrateState::Unknown | CrateState::Ahead => submit
Submits(state) == state \in {"Unknown", "Ahead"}

\* what publish_crates has returned and done: the result, the calls made on
\* the crates in the order made, and the crates published in the registry
PublishOutcome(res, log, done) == [result |-> res, log |-> log, published |-> done]

Call(i, op) == [crate |-> i, op |-> op]

\* for c in &self.crates { .. } from the i-th crate on
RECURSIVE PublishFrom(_, _, _, _)
PublishFrom(crates, i, log, done) ==
    IF i > Len(crates) THEN PublishOutcome("Ok", log, done)
    ELSE LET c == crates[i]
             log1 == Append(log, Call(i, "validate"))
             log2 == Append(log1, Call(i, "determine_state"))
             log3 == Append(log2, Call(i, "submit"))
         IN  IF Crate_validate(c) = "Err" THEN PublishOutcome("Err", log1, done)
             ELSE IF Crate_determine_state(c) = "Err" THEN PublishOutcome("Err", log2, done)
             ELSE IF ~Submits(Crate_determine_state(c))
                  THEN PublishFrom(crates, i + 1, log2, done)
             ELSE IF Crate_submit(c) = "Err" THEN PublishOutcome("Err", log3, done)
             ELSE PublishFrom(crates, i + 1, log3, Append(done, i))

\* Registry::publish_crates
publish_crates(crates) == PublishFrom(crates, 1, <<>>, <<>>)

InitRegistry ==
    /\ pc = "start"
    /\ regCrates \in UNION {[1..n -> Crates] : n \in 0..MaxCrates}
    /\ regOut = NoList
    /\ BaseIdle /\ KernelIdle /\ VertexIdle /\ ProcIdle /\ AppIdle

CallPublishCrates ==
    /\ pc = "start"
    /\ regOut' = publish_crates(regCrates)
    /\ pc' = "done"
    /\ UNCHANGED <<regCrates, baseVars, kernelVars, vertexVars, procVars, appVars>>

NextRegistry == CallPublishCrates

SpecRegistry == InitRegistry /\ [][NextRegistry]_vars

----------------------------------------------------------------------------
(* Properties of publish_crates.                                             *)

\* the crate fails: its path is missing, its state cannot be found, or it is
\* to be submitted and the submission fails
Fails(c) ==
    \/ ~c.exists
    \/ c.resp.status = "SERVER_ERROR"
    \/ (c.resp.status = "NOT_FOUND" \/ (c.resp.status = "OK" /\ c.ours > c.resp.theirs))
          /\ ~c.publishes

\* the state the registry shows for the crate
StateOf(c) ==
    IF c.resp.status = "NOT_FOUND" THEN "Unknown"
    ELSE IF c.ours = c.resp.theirs THEN "Published"
    ELSE IF c.ours < c.resp.theirs THEN "Behind" ELSE "Ahead"

OpRank(op) == CASE op = "validate" -> 1 [] op = "determine_state" -> 2 [] op = "submit" -> 3

Logged(i, op) == \E k \in 1..Len(regOut.log) : regOut.log[k] = Call(i, op)

\* the first crate that fails, or one past the last crate
FirstFailure ==
    IF \E i \in 1..Len(regCrates) : Fails(regCrates[i])
    THEN CHOOSE i \in 1..Len(regCrates) :
            Fails(regCrates[i]) /\ \A j \in 1..(i - 1) : ~Fails(regCrates[j])
    ELSE Len(regCrates) + 1

====
